---- MODULE Spec2Model ----
(***************************************************************************)
(* Speculative decoding control algorithm of sygaldry.                     *)
(*                                                                         *)
(* Two machines are modelled:                                              *)
(*   - the engine SpeculativeDecoder of llm_speculative_decoding_gpt2.py   *)
(*     (generate, _generate_tokens, _draft_phase, _verification_phase,     *)
(*     _get_adaptive_speculation_length, _fallback_generate);              *)
(*   - the functions greedy_decode and speculative_decode of               *)
(*     llm_speculative_decoding_demo.py.                                   *)
(* The language models and the tokenizer are external collaborators: a     *)
(* target model is a deterministic function of the token prefix, a draft   *)
(* model call returns any token, and any call may fail.                    *)
(***************************************************************************)
EXTENDS Integers, Sequences, FiniteSets, TLC

\* ------------------------------------------------------------------ bounds
VocabSize == 2
MaxPromptLen == 3
MaxNewArg == 7
MaxBaseK == 2
MaxCalls == 2
MaxDemoNew == 4
MaxDemoK == 3
MaxAdaptK == 4
MaxAdaptNew == 26
AdaptMaxSeq == 40
\* the configuration's max_speculation_length, max_new_tokens and
\* max_sequence_length
CfgMaxSpec == 3
CfgMaxNew == 3
CfgMaxSeq == 5

\* ------------------------------------------------------- program constants
\* k and max_new_tokens of the demo script's run
ScenarioK == 4
ScenarioNew == 20
\* max_consecutive_rejections in _generate_tokens
MaxConsecutiveRejections == 5
\* the K that SpeculationMetrics.acceptance_rate assumes
AssumedK == 4
\* rounds that must have completed before the adaptive rule applies
AdaptiveMinRounds == 5
\* the thresholds 0.8 and 0.3 of the adaptive rule, in tenths
HighRateTenths == 8
LowRateTenths == 3

Vocab == 0 .. (VocabSize - 1)
\* the value of an omitted max_new_tokens argument (None)
NoneArg == -1

Min(a, b) == IF a <= b THEN a ELSE b
Max(a, b) == IF a >= b THEN a ELSE b

VARIABLES
    cfg,                    \* the SpeculativeDecodingConfig of the decoder
    targetModel,            \* the target model's weights (fixed)
    pc,                     \* where the current generate call is
    calls,                  \* generate calls started on this decoder
    prompt,                 \* the prompt of the current call, as tokens
    max_new_tokens,         \* generate's local max_new_tokens
    original_length,        \* len(input_ids[0]) in generate
    generated,              \* _generate_tokens' list `generated`
    tokens_generated,       \* _generate_tokens' counter
    consecutive_rejections, \* _generate_tokens' counter
    speculation_length,     \* this round's clamped k
    draft_tokens,           \* the proposals of the round being drafted
    metrics,                \* self.metrics
    result,                 \* what the generate call gave its caller
    draft_calls,            \* draft model invocations in this call
    target_calls,           \* target model invocations in this call
    failed,                 \* a model call of this call raised
    last,                   \* the last completed round
    zero_run,               \* consecutive rounds with no draft token matching
    demo,                   \* the state of the demo script's two decoders
    hist                    \* summary of the rounds of this call: rounds
                            \* started, draft tokens accepted, and whether
                            \* a round appended other than one token

vars == << cfg, targetModel, pc, calls, prompt, max_new_tokens, original_length,
           generated, tokens_generated, consecutive_rejections,
           speculation_length, draft_tokens, metrics, result, draft_calls,
           target_calls, failed, last, zero_run, hist, demo >>

\* --------------------------------------------------------------- the models
\* Greedy prediction of the target model for the token that follows `seq`.
TargetPredict(seq) ==
    (targetModel.a * seq[Len(seq)] + targetModel.b * Len(seq) + 1) % VocabSize

\* argmax of row j (0-based) of the logits that the target model returns for
\* `seq`: the row of position j is the prediction for the token that follows
\* position j.
TargetArgmax(seq, j) == TargetPredict(SubSeq(seq, 1, j + 1))

\* Pure target-only greedy decoding of n tokens from `seq`.
RECURSIVE Greedy(_, _)
Greedy(seq, n) ==
    IF n <= 0 THEN seq ELSE Greedy(Append(seq, TargetPredict(seq)), n - 1)

IsPrefix(s, t) == Len(s) <= Len(t) /\ SubSeq(t, 1, Len(s)) = s

\* ------------------------------------------------------------------ metrics
NewMetrics ==
    [ total_tokens_generated |-> 0,
      total_speculation_rounds |-> 0,
      total_accepted_tokens |-> 0 ]

\* SpeculationMetrics.acceptance_rate as a fraction: numerator and denominator
AcceptanceRate(m) ==
    IF m.total_speculation_rounds = 0
    THEN [ num |-> 0, den |-> 1 ]
    ELSE [ num |-> m.total_accepted_tokens,
           den |-> m.total_speculation_rounds * AssumedK ]

\* acceptance_rate > hi/10, and acceptance_rate < lo/10, in integers
\* (rate = accepted / (rounds * 4), 0.0 when no round has run)
RateAbove(m, tenths) ==
    /\ m.total_speculation_rounds # 0
    /\ 10 * m.total_accepted_tokens > tenths * AssumedK * m.total_speculation_rounds
RateBelow(m, tenths) ==
    \/ m.total_speculation_rounds = 0 /\ tenths > 0
    \/ /\ m.total_speculation_rounds # 0
       /\ 10 * m.total_accepted_tokens < tenths * AssumedK * m.total_speculation_rounds

\* the adaptive rule without the floor at 1
GetAdaptiveNoFloor(c, m) ==
    LET base_length == c.speculation_length IN
    IF m.total_speculation_rounds > AdaptiveMinRounds
    THEN IF RateAbove(m, HighRateTenths)
         THEN Min(base_length + 1, c.max_speculation_length)
         ELSE IF RateBelow(m, LowRateTenths)
              THEN base_length - 1
              ELSE base_length
    ELSE base_length

\* the adaptive rule without the cap at max_speculation_length
GetAdaptiveNoCeiling(c, m) ==
    LET base_length == c.speculation_length IN
    IF m.total_speculation_rounds > AdaptiveMinRounds
    THEN IF RateAbove(m, HighRateTenths)
         THEN base_length + 1
         ELSE IF RateBelow(m, LowRateTenths)
              THEN Max(1, base_length - 1)
              ELSE base_length
    ELSE base_length

\* an adaptive rule that moves one step further from the base length with
\* every round the rate stays high or low
GetAdaptiveAccumulates(c, m) ==
    LET base_length == c.speculation_length
        steps == m.total_speculation_rounds - AdaptiveMinRounds
    IN  IF m.total_speculation_rounds > AdaptiveMinRounds
        THEN IF RateAbove(m, HighRateTenths)
             THEN Min(base_length + steps, c.max_speculation_length)
             ELSE IF RateBelow(m, LowRateTenths)
                  THEN Max(1, base_length - steps)
                  ELSE base_length
        ELSE base_length

\* the adaptive rule acting as soon as AdaptiveMinRounds rounds have completed
GetAdaptiveFromMinRounds(c, m) ==
    LET base_length == c.speculation_length IN
    IF m.total_speculation_rounds >= AdaptiveMinRounds
    THEN IF RateAbove(m, HighRateTenths)
         THEN Min(base_length + 1, c.max_speculation_length)
         ELSE IF RateBelow(m, LowRateTenths)
              THEN Max(1, base_length - 1)
              ELSE base_length
    ELSE base_length

\* the adaptive rule with the two rate tests in the other order of outcome
GetAdaptiveSwapped(c, m) ==
    LET base_length == c.speculation_length IN
    IF m.total_speculation_rounds > AdaptiveMinRounds
    THEN IF RateAbove(m, HighRateTenths)
         THEN Max(1, base_length - 1)
         ELSE IF RateBelow(m, LowRateTenths)
              THEN Min(base_length + 1, c.max_speculation_length)
              ELSE base_length
    ELSE base_length

GetAdaptiveSpeculationLength(c, m) ==
    LET base_length == c.speculation_length IN
    IF m.total_speculation_rounds > AdaptiveMinRounds
    THEN IF RateAbove(m, HighRateTenths)
         THEN Min(base_length + 1, c.max_speculation_length)
         ELSE IF RateBelow(m, LowRateTenths)
              THEN Max(1, base_length - 1)
              ELSE base_length
    ELSE base_length

\* ------------------------------------------------------------ configuration
\* a validation that only tests the upper end of the range
ValidConfigNoLowerBound(c) ==
    c.speculation_length <= c.max_speculation_length

\* SpeculativeDecodingConfig._validate_config: the check on speculation_length
ValidConfig(c) ==
    1 <= c.speculation_length /\ c.speculation_length <= c.max_speculation_length

Configs ==
    { c \in [ speculation_length : 1 .. MaxBaseK,
              max_speculation_length : {CfgMaxSpec},
              max_new_tokens : {CfgMaxNew},
              max_sequence_length : {CfgMaxSeq},
              fallback_to_standard : BOOLEAN ] :
        ValidConfig(c) }

TargetModels == [ a : 0 .. 1, b : 0 .. 1 ]

\* prompts, as the token sequences the tokenizer makes of them
Prompts == { [ i \in 1 .. n |-> i % VocabSize ] : n \in 0 .. MaxPromptLen }

\* the max_new_tokens arguments of the calls: omitted, 0, small, and large
\* enough for the adaptive rule and the rejection counter to matter
MaxNewArgs == {NoneArg, 0, 1, 2, MaxNewArg}

\* tokenizer(prompt, truncation=True, max_length=L): the first L tokens
Truncate(seq, L) == IF Len(seq) <= L THEN seq ELSE SubSeq(seq, 1, L)

TokenizePrompt(p) == Truncate(p, cfg.max_sequence_length - cfg.max_new_tokens)

\* `max_new_tokens or self.config.max_new_tokens`: None and 0 are both falsy
EffectiveMaxNew(arg) ==
    IF arg = NoneArg \/ arg = 0 THEN cfg.max_new_tokens ELSE arg

\* what generate gives its caller: the decoded text (as its tokens), with the
\* metrics dictionary or without, or an exception
\* what a call gave its caller: the kind of outcome, the tokens of the text,
\* whether the metrics came with it, and the return_metrics the caller asked
\* for when the call returned
NoResult ==
    [ kind |-> "none", tokens |-> << >>, with_metrics |-> FALSE, asked |-> FALSE ]
Raised(e) ==
    [ kind |-> e, tokens |-> << >>, with_metrics |-> FALSE, asked |-> FALSE ]
Returned(toks, wm) ==
    [ kind |-> "text", tokens |-> toks, with_metrics |-> wm, asked |-> wm ]

NoRound == [ m |-> 0, matched |-> 0, added |-> 0, before |-> 0 ]
NoHist == [ rounds |-> 0, draft_accepted |-> 0, multi |-> FALSE, proposed |-> 0 ]

\* the demo script before it has run anything
DemoIdle ==
    [ pc |-> "idle", context |-> << >>, max_new_tokens |-> 0, k |-> 0,
      tokens |-> << >>, calls |-> 0, naive |-> << >>,
      generated |-> << >>, guesses |-> << >>, target_calls |-> 0,
      total_guesses |-> 0, total_accepted |-> 0, acceptance_steps |-> << >>,
      draft |-> "any" ]

\* a decoder that has not been used yet
EngineIdle ==
    /\ pc = "idle"
    /\ calls = 0
    /\ prompt = << >>
    /\ max_new_tokens = 0
    /\ original_length = 0
    /\ generated = << >>
    /\ tokens_generated = 0
    /\ consecutive_rejections = 0
    /\ speculation_length = 0
    /\ draft_tokens = << >>
    /\ metrics = NewMetrics
    /\ result = NoResult
    /\ draft_calls = 0
    /\ target_calls = 0
    /\ failed = FALSE
    /\ last = NoRound
    /\ zero_run = 0
    /\ hist = NoHist

Init ==
    /\ cfg \in Configs
    /\ targetModel \in TargetModels
    /\ EngineIdle
    /\ demo = DemoIdle

Idle == pc \in {"idle", "returned", "raised"}

\* what a new generate call resets in the model's bookkeeping of the call
ResetCall ==
    /\ draft_calls' = 0
    /\ target_calls' = 0
    /\ failed' = FALSE
    /\ last' = NoRound
    /\ zero_run' = 0
    /\ hist' = NoHist
    /\ draft_tokens' = << >>
    /\ speculation_length' = 0

\* generate's except clause: fall back when the configuration says so,
\* else raise RuntimeError
GenerateExcept ==
    IF cfg.fallback_to_standard
    THEN /\ pc' = "fallback"
         /\ result' = NoResult
    ELSE /\ pc' = "raised"
         /\ result' = Raised("RuntimeError")

\* generate that goes on with the metrics object of the call before
GenerateKeepsMetrics(p, arg) ==
    /\ Idle
    /\ calls < MaxCalls
    /\ calls' = calls + 1
    /\ prompt' = p
    /\ ResetCall
    /\ IF p = << >>
       THEN /\ pc' = "raised"
            /\ result' = Raised("ValueError")
            /\ UNCHANGED << max_new_tokens, original_length, generated,
                            tokens_generated, consecutive_rejections, metrics >>
       ELSE /\ max_new_tokens' = EffectiveMaxNew(arg)
            /\ metrics' = metrics
            /\ original_length' = Len(TokenizePrompt(p))
            /\ generated' = TokenizePrompt(p)
            /\ tokens_generated' = 0
            /\ consecutive_rejections' = 0
            /\ pc' = "loop"
            /\ result' = NoResult
    /\ UNCHANGED << cfg, targetModel, demo >>

\* generate(prompt, max_new_tokens): validation, defaults, metrics reset,
\* tokenization and the start of _generate_tokens
Generate(p, arg) ==
    /\ Idle
    /\ calls < MaxCalls
    /\ calls' = calls + 1
    /\ prompt' = p
    /\ ResetCall
    /\ IF p = << >>
       THEN \* ValueError before anything else happens
            /\ pc' = "raised"
            /\ result' = Raised("ValueError")
            /\ UNCHANGED << max_new_tokens, original_length, generated,
                            tokens_generated, consecutive_rejections, metrics >>
       ELSE /\ max_new_tokens' = EffectiveMaxNew(arg)
            /\ metrics' = NewMetrics
            /\ original_length' = Len(TokenizePrompt(p))
            /\ generated' = TokenizePrompt(p)
            /\ tokens_generated' = 0
            /\ consecutive_rejections' = 0
            /\ pc' = "loop"
            /\ result' = NoResult
    /\ UNCHANGED << cfg, targetModel, demo >>

\* generate when the tokenizer raises on the prompt
GenerateTokenizeFails(p, arg) ==
    /\ Idle
    /\ calls < MaxCalls
    /\ p # << >>
    /\ calls' = calls + 1
    /\ prompt' = p
    /\ ResetCall
    /\ max_new_tokens' = EffectiveMaxNew(arg)
    /\ metrics' = NewMetrics
    /\ original_length' = 0
    /\ generated' = << >>
    /\ tokens_generated' = 0
    /\ consecutive_rejections' = 0
    /\ GenerateExcept
    /\ UNCHANGED << cfg, targetModel, demo >>

\* --------------------------------------------------------- _generate_tokens
CallState ==
    << cfg, targetModel, calls, prompt, max_new_tokens, original_length, demo >>

\* the head of the while loop without the clamp to the remaining budget
LoopHeadNoClamp ==
    /\ pc = "loop"
    /\ IF tokens_generated < max_new_tokens
       THEN LET k == GetAdaptiveSpeculationLength(cfg, metrics)
            IN  /\ speculation_length' = k
                /\ draft_tokens' = << >>
                /\ pc' = IF k = 0 THEN "exit" ELSE "draft"
                /\ hist' = IF k = 0 THEN hist
                           ELSE [ hist EXCEPT !.rounds = @ + 1 ]
       ELSE /\ pc' = "exit"
            /\ UNCHANGED << speculation_length, draft_tokens, hist >>
    /\ UNCHANGED << CallState, generated, tokens_generated, consecutive_rejections,
                    metrics, result, draft_calls, target_calls, failed, last,
                    zero_run >>

\* the head of the while loop: the loop test, the adaptive k, the clamp to the
\* remaining budget and the `speculation_length == 0` exit
LoopHead ==
    /\ pc = "loop"
    /\ IF tokens_generated < max_new_tokens
       THEN LET current_k == GetAdaptiveSpeculationLength(cfg, metrics)
                remaining_tokens == max_new_tokens - tokens_generated
                k == Min(current_k, remaining_tokens)
            IN  /\ speculation_length' = k
                /\ draft_tokens' = << >>
                /\ pc' = IF k = 0 THEN "exit" ELSE "draft"
                /\ hist' = IF k = 0 THEN hist
                           ELSE [ hist EXCEPT !.rounds = @ + 1 ]
       ELSE /\ pc' = "exit"
            /\ UNCHANGED << speculation_length, draft_tokens, hist >>
    /\ UNCHANGED << CallState, generated, tokens_generated, consecutive_rejections,
                    metrics, result, draft_calls, target_calls, failed, last,
                    zero_run >>

\* an except clause that goes round the loop again
RoundExceptRetries ==
    /\ failed' = TRUE
    /\ pc' = "loop"
    /\ UNCHANGED result

\* an except clause that leaves the loop whatever the configuration says
RoundExceptAlwaysBreaks ==
    /\ failed' = TRUE
    /\ pc' = "exit"
    /\ UNCHANGED result

\* the except clause of the round: leave the loop when fallback_to_standard,
\* else re-raise, which generate turns into RuntimeError
RoundExcept ==
    /\ failed' = TRUE
    /\ IF cfg.fallback_to_standard
       THEN pc' = "exit" /\ UNCHANGED result
       ELSE pc' = "raised" /\ result' = Raised("RuntimeError")

\* whether the draft loop stops after having appended a token:
\* range(k) is used up, or the scratch context reached max_sequence_length
DraftStops(context, drafts, k) ==
    \/ Len(drafts) >= k
    \/ Len(context) + Len(drafts) >= cfg.max_sequence_length

\* a draft loop that appends its proposals to the caller's list as well
DraftCallAppendsToContext(t) ==
    /\ pc = "draft"
    /\ draft_calls' = draft_calls + 1
    /\ draft_tokens' = Append(draft_tokens, t)
    /\ generated' = Append(generated, t)
    /\ pc' = IF DraftStops(generated, draft_tokens', speculation_length)
             THEN (IF draft_tokens' = << >> THEN "exit" ELSE "verify")
             ELSE "draft"
    /\ UNCHANGED << CallState, tokens_generated, consecutive_rejections,
                    speculation_length, metrics, result, target_calls, failed,
                    last, zero_run, hist >>

\* one iteration of _draft_phase's loop: the draft model returns token t
DraftCall(t) ==
    /\ pc = "draft"
    /\ draft_calls' = draft_calls + 1
    /\ draft_tokens' = Append(draft_tokens, t)
    /\ pc' = IF DraftStops(generated, draft_tokens', speculation_length)
             THEN (IF draft_tokens' = << >> THEN "exit" ELSE "verify")
             ELSE "draft"
    /\ UNCHANGED << CallState, generated, tokens_generated, consecutive_rejections,
                    speculation_length, metrics, result, target_calls, failed,
                    last, zero_run, hist >>

\* one iteration of _draft_phase's loop: the draft model raises
DraftCallFails ==
    /\ pc = "draft"
    /\ draft_calls' = draft_calls + 1
    /\ RoundExcept
    /\ UNCHANGED << CallState, generated, tokens_generated, consecutive_rejections,
                    speculation_length, draft_tokens, metrics, target_calls,
                    last, zero_run, hist >>

\* ------------------------------------------------------ _verification_phase
\* The for loop over the draft tokens, from index i (0-based) on. `context` is
\* the list being appended to, `combined` the sequence the target model was
\* run on, `context_length` the length of the context before the loop.
\* Gives the context after the loop, accepted_count, and how many draft tokens
\* equalled the target's prediction.
\* VerifyLoop reading the logits row of the draft token's own position
RECURSIVE VerifyLoopOffByOne(_, _, _, _, _, _, _)
VerifyLoopOffByOne(context, drafts, combined, context_length, i, accepted_count, matched) ==
    LET position == context_length + i IN
    IF i >= Len(drafts) \/ position >= Len(combined)
    THEN [ context |-> context, accepted_count |-> accepted_count,
           matched |-> matched ]
    ELSE LET draft_token == drafts[i + 1]
             target_prediction == TargetArgmax(combined, position)
         IN  IF target_prediction = draft_token
             THEN VerifyLoopOffByOne(Append(context, draft_token), drafts,
                                     combined, context_length, i + 1,
                                     accepted_count + 1, matched + 1)
             ELSE [ context |-> Append(context, target_prediction),
                    accepted_count |-> accepted_count + 1,
                    matched |-> matched ]

\* VerifyLoop that stops at the first mismatch without substituting the
\* target's token
RECURSIVE VerifyLoopNoPatch(_, _, _, _, _, _, _)
VerifyLoopNoPatch(context, drafts, combined, context_length, i, accepted_count, matched) ==
    LET position == context_length + i IN
    IF i >= Len(drafts) \/ position >= Len(combined)
    THEN [ context |-> context, accepted_count |-> accepted_count,
           matched |-> matched ]
    ELSE LET draft_token == drafts[i + 1]
             target_prediction == TargetArgmax(combined, position - 1)
         IN  IF target_prediction = draft_token
             THEN VerifyLoopNoPatch(Append(context, draft_token), drafts,
                                    combined, context_length, i + 1,
                                    accepted_count + 1, matched + 1)
             ELSE [ context |-> context, accepted_count |-> accepted_count,
                    matched |-> matched ]

\* VerifyLoop that appends the target's token without counting it
RECURSIVE VerifyLoopUncountedPatch(_, _, _, _, _, _, _)
VerifyLoopUncountedPatch(context, drafts, combined, context_length, i, accepted_count, matched) ==
    LET position == context_length + i IN
    IF i >= Len(drafts) \/ position >= Len(combined)
    THEN [ context |-> context, accepted_count |-> accepted_count,
           matched |-> matched ]
    ELSE LET draft_token == drafts[i + 1]
             target_prediction == TargetArgmax(combined, position - 1)
         IN  IF target_prediction = draft_token
             THEN VerifyLoopUncountedPatch(Append(context, draft_token), drafts,
                                           combined, context_length, i + 1,
                                           accepted_count + 1, matched + 1)
             ELSE [ context |-> Append(context, target_prediction),
                    accepted_count |-> accepted_count,
                    matched |-> matched ]

\* VerifyLoop that keeps the rejected draft token instead of the target's
RECURSIVE VerifyLoopKeepsDraft(_, _, _, _, _, _, _)
VerifyLoopKeepsDraft(context, drafts, combined, context_length, i, accepted_count, matched) ==
    LET position == context_length + i IN
    IF i >= Len(drafts) \/ position >= Len(combined)
    THEN [ context |-> context, accepted_count |-> accepted_count,
           matched |-> matched ]
    ELSE LET draft_token == drafts[i + 1]
             target_prediction == TargetArgmax(combined, position - 1)
         IN  IF target_prediction = draft_token
             THEN VerifyLoopKeepsDraft(Append(context, draft_token), drafts,
                                       combined, context_length, i + 1,
                                       accepted_count + 1, matched + 1)
             ELSE [ context |-> Append(context, draft_token),
                    accepted_count |-> accepted_count + 1,
                    matched |-> matched ]

\* VerifyLoop that writes the target's token over the last token of the list
\* instead of appending it
RECURSIVE VerifyLoopOverwritesLast(_, _, _, _, _, _, _)
VerifyLoopOverwritesLast(context, drafts, combined, context_length, i, accepted_count, matched) ==
    LET position == context_length + i IN
    IF i >= Len(drafts) \/ position >= Len(combined)
    THEN [ context |-> context, accepted_count |-> accepted_count,
           matched |-> matched ]
    ELSE LET draft_token == drafts[i + 1]
             target_prediction == TargetArgmax(combined, position - 1)
         IN  IF target_prediction = draft_token
             THEN VerifyLoopOverwritesLast(Append(context, draft_token), drafts,
                                           combined, context_length, i + 1,
                                           accepted_count + 1, matched + 1)
             ELSE [ context |-> [ context EXCEPT ![Len(context)] = target_prediction ],
                    accepted_count |-> accepted_count + 1,
                    matched |-> matched ]

RECURSIVE VerifyLoop(_, _, _, _, _, _, _)
VerifyLoop(context, drafts, combined, context_length, i, accepted_count, matched) ==
    LET position == context_length + i IN
    IF i >= Len(drafts) \/ position >= Len(combined)
    THEN [ context |-> context, accepted_count |-> accepted_count,
           matched |-> matched ]
    ELSE LET draft_token == drafts[i + 1]
             target_prediction == TargetArgmax(combined, position - 1)
         IN  IF target_prediction = draft_token
             THEN VerifyLoop(Append(context, draft_token), drafts, combined,
                             context_length, i + 1, accepted_count + 1,
                             matched + 1)
             ELSE [ context |-> Append(context, target_prediction),
                    accepted_count |-> accepted_count + 1,
                    matched |-> matched ]

\* _verification_phase(context, draft_tokens) once the target model has
\* answered: 0 for an empty proposal, else the loop
VerificationPhase(context, drafts) ==
    IF drafts = << >>
    THEN [ context |-> context, accepted_count |-> 0, matched |-> 0 ]
    ELSE VerifyLoop(context, drafts, context \o drafts, Len(context), 0, 0, 0)

\* one target model call for each draft token
TargetCallsPerToken(drafts) == Len(drafts)

\* target model invocations of one _verification_phase call
TargetCallsOfRound(drafts) == IF drafts = << >> THEN 0 ELSE 1

\* the rest of a round of _generate_tokens: the target model answers, the
\* proposals are verified, the counters and the metrics are updated and the
\* consecutive rejections are tracked
TargetCall ==
    /\ pc = "verify"
    /\ LET v == VerificationPhase(generated, draft_tokens)
           accepted_count == v.accepted_count
           rejections == IF accepted_count = 0
                         THEN consecutive_rejections + 1 ELSE 0
       IN  /\ target_calls' = target_calls + TargetCallsOfRound(draft_tokens)
           /\ generated' = v.context
           /\ tokens_generated' = tokens_generated + accepted_count
           /\ metrics' =
                [ metrics EXCEPT
                    !.total_speculation_rounds = @ + 1,
                    !.total_accepted_tokens = @ + accepted_count ]
           /\ consecutive_rejections' = rejections
           /\ pc' = IF accepted_count = 0 /\ rejections >= MaxConsecutiveRejections
                    THEN "exit" ELSE "loop"
           /\ last' = [ m |-> Len(draft_tokens), matched |-> v.matched,
                        added |-> Len(v.context) - Len(generated),
                        before |-> tokens_generated ]
           /\ zero_run' = IF v.matched = 0 THEN zero_run + 1 ELSE 0
           /\ hist' = [ hist EXCEPT
                          !.draft_accepted = @ + v.matched,
                          !.proposed = @ + Len(draft_tokens),
                          !.multi = @ \/ Len(v.context) - Len(generated) # 1 ]
    /\ UNCHANGED << CallState, speculation_length, draft_tokens, result,
                    draft_calls, failed >>

\* a verification that has appended the first token to the caller's list
\* when the exception leaves it
TargetCallFailsAfterAppend ==
    /\ pc = "verify"
    /\ target_calls' = target_calls + 1
    /\ generated' = Append(generated, TargetPredict(generated))
    /\ RoundExcept
    /\ UNCHANGED << CallState, tokens_generated, consecutive_rejections,
                    speculation_length, draft_tokens, metrics, draft_calls,
                    last, zero_run, hist >>

\* the target model raises in _verification_phase
TargetCallFails ==
    /\ pc = "verify"
    /\ target_calls' = target_calls + 1
    /\ RoundExcept
    /\ UNCHANGED << CallState, generated, tokens_generated, consecutive_rejections,
                    speculation_length, draft_tokens, metrics, draft_calls,
                    last, zero_run, hist >>

\* a generate that reports the whole length of the returned ids, the prompt
\* included, as the number of tokens generated
FinishCountsPrompt(return_metrics) ==
    /\ pc = "exit"
    /\ metrics' = [ metrics EXCEPT !.total_tokens_generated = Len(generated) ]
    /\ result' = Returned(generated, return_metrics)
    /\ pc' = "returned"
    /\ UNCHANGED << CallState, generated, tokens_generated, consecutive_rejections,
                    speculation_length, draft_tokens, draft_calls, target_calls,
                    failed, last, zero_run, hist >>

\* ------------------------------------------------- the end of a generate call
\* generate after _generate_tokens returned: decode, total_tokens_generated,
\* and the return of the text (with the metrics when return_metrics, the
\* caller's argument, which nothing reads before this point)
Finish(return_metrics) ==
    /\ pc = "exit"
    /\ metrics' = [ metrics EXCEPT
                      !.total_tokens_generated = Len(generated) - original_length ]
    /\ result' = Returned(generated, return_metrics)
    /\ pc' = "returned"
    /\ UNCHANGED << CallState, generated, tokens_generated, consecutive_rejections,
                    speculation_length, draft_tokens, draft_calls, target_calls,
                    failed, last, zero_run, hist >>

\* generate when tokenizer.decode raises on the generated ids
FinishDecodeFails ==
    /\ pc = "exit"
    /\ GenerateExcept
    /\ UNCHANGED << CallState, generated, tokens_generated, consecutive_rejections,
                    speculation_length, draft_tokens, metrics, draft_calls,
                    target_calls, failed, last, zero_run, hist >>

\* _fallback_generate: the prompt is tokenized again and the target model's own
\* generate produces max_new_tokens greedy tokens; the text is returned alone
FallbackGenerate(return_metrics) ==
    /\ pc = "fallback"
    /\ target_calls' = target_calls + max_new_tokens
    /\ result' = [ Returned(Greedy(TokenizePrompt(prompt), max_new_tokens), FALSE)
                     EXCEPT !.asked = return_metrics ]
    /\ pc' = "returned"
    /\ UNCHANGED << CallState, generated, tokens_generated, consecutive_rejections,
                    speculation_length, draft_tokens, metrics, draft_calls,
                    failed, last, zero_run, hist >>

\* _fallback_generate when the tokenizer or the target model raises: the
\* exception leaves generate
FallbackGenerateFails ==
    /\ pc = "fallback"
    /\ result' = Raised("Exception")
    /\ pc' = "raised"
    /\ UNCHANGED << CallState, generated, tokens_generated, consecutive_rejections,
                    speculation_length, draft_tokens, metrics, draft_calls,
                    target_calls, failed, last, zero_run, hist >>

Next ==
    \/ \E p \in Prompts, arg \in MaxNewArgs : Generate(p, arg)
    \/ \E p \in Prompts, arg \in MaxNewArgs : GenerateTokenizeFails(p, arg)
    \/ LoopHead
    \/ \E t \in Vocab : DraftCall(t)
    \/ DraftCallFails
    \/ TargetCall
    \/ TargetCallFails
    \/ \E rm \in BOOLEAN : Finish(rm)
    \/ FinishDecodeFails
    \/ \E rm \in BOOLEAN : FallbackGenerate(rm)
    \/ FallbackGenerateFails

Spec == Init /\ [][Next]_vars

\* ================================================ the demo script's decoders
\* (llm_speculative_decoding_demo.py; the target model is run as a causal
\* model, row j of its logits being its greedy prediction after position j)
DemoContexts == Prompts \ {<< >>}

EngineVars ==
    << cfg, pc, calls, prompt, max_new_tokens, original_length, generated,
       tokens_generated, consecutive_rejections, speculation_length,
       draft_tokens, metrics, result, draft_calls, target_calls, failed, last,
       zero_run, hist >>

\* the draft models given to speculative_decode: "target" is __main__'s draft,
\* a copy of the target's weights, which guesses what the target predicts;
\* "any" is a draft model of its own, whose guesses are free
DraftModels == {"any", "target"}

\* __main__'s own arguments, the tokens taken into the vocabulary
ScenarioInput ==
    [ context |-> << 10 % VocabSize, 20 % VocabSize >>,
      max_new_tokens |-> ScenarioNew, k |-> ScenarioK, draft |-> "target" ]

\* the arguments the two decoders are run with
DemoInputs ==
    [ context : DemoContexts, max_new_tokens : 0 .. MaxDemoNew,
      k : 1 .. MaxDemoK, draft : DraftModels ]
    \cup {ScenarioInput}

\* __main__: the context and the decoding parameters, and the start of
\* greedy_decode (tokens = list(context), calls = 0)
DemoInit ==
    /\ cfg = [ speculation_length |-> 1, max_speculation_length |-> CfgMaxSpec,
               max_new_tokens |-> CfgMaxNew, max_sequence_length |-> CfgMaxSeq,
               fallback_to_standard |-> TRUE ]
    /\ targetModel \in TargetModels
    /\ EngineIdle
    /\ \E in \in DemoInputs :
          demo = [ DemoIdle EXCEPT !.pc = "greedy", !.context = in.context,
                                   !.max_new_tokens = in.max_new_tokens,
                                   !.k = in.k, !.tokens = in.context,
                                   !.draft = in.draft ]

\* a greedy_decode loop working on the caller's list itself, not on a copy
GreedyDecodeStepOnContext ==
    /\ demo.pc = "greedy"
    /\ demo.calls < demo.max_new_tokens
    /\ demo' = [ demo EXCEPT
                   !.calls = @ + 1,
                   !.tokens = Append(@, TargetArgmax(demo.tokens,
                                                     Len(demo.tokens) - 1)),
                   !.context = Append(@, TargetArgmax(demo.tokens,
                                                      Len(demo.tokens) - 1)) ]
    /\ UNCHANGED << EngineVars, targetModel >>

\* one iteration of greedy_decode's loop: a model call, the argmax of the last
\* row, the append
GreedyDecodeStep ==
    /\ demo.pc = "greedy"
    /\ demo.calls < demo.max_new_tokens
    /\ demo' = [ demo EXCEPT
                   !.calls = @ + 1,
                   !.tokens = Append(@, TargetArgmax(demo.tokens,
                                                     Len(demo.tokens) - 1)) ]
    /\ UNCHANGED << EngineVars, targetModel >>

\* greedy_decode returns tokens[len(context):] and calls; speculative_decode
\* starts with the same arguments
GreedyDecodeReturn ==
    /\ demo.pc = "greedy"
    /\ demo.calls >= demo.max_new_tokens
    /\ demo' = [ demo EXCEPT
                   !.naive = SubSeq(demo.tokens, Len(demo.context) + 1,
                                    Len(demo.tokens)),
                   !.pc = "while" ]
    /\ UNCHANGED << EngineVars, targetModel >>

\* the test of speculative_decode's while loop: another step, or the return
SpecLoopHead ==
    /\ demo.pc = "while"
    /\ demo' = [ demo EXCEPT
                   !.guesses = << >>,
                   !.pc = IF Len(demo.generated) < demo.max_new_tokens
                          THEN "draft" ELSE "done" ]
    /\ UNCHANGED << EngineVars, targetModel >>

\* one iteration of the draft loop: the draft model's guess g
SpecDraftCall(g) ==
    /\ demo.pc = "draft"
    /\ demo.draft = "target"
          => g = TargetPredict((demo.context \o demo.generated) \o demo.guesses)
    /\ LET guesses == Append(demo.guesses, g) IN
       demo' = [ demo EXCEPT
                   !.guesses = guesses,
                   !.pc = IF \/ Len(guesses) >= demo.k
                             \/ Len(demo.generated) + Len(guesses)
                                   >= demo.max_new_tokens
                          THEN "verify" ELSE "draft" ]
    /\ UNCHANGED << EngineVars, targetModel >>

\* a verification loop that goes on examining the guesses after a mismatch
RECURSIVE SpecAcceptLoopNoBreak(_, _, _, _)
SpecAcceptLoopNoBreak(full_sequence, guesses, offset, details) ==
    LET i == Len(details) IN
    IF i >= Len(guesses)
    THEN details
    ELSE LET target_pred == TargetArgmax(full_sequence, offset + i)
             is_accepted == (target_pred = guesses[i + 1])
         IN  SpecAcceptLoopNoBreak(full_sequence, guesses, offset,
                                   Append(details, is_accepted))

\* the verification loop over the guesses, from index i on: the details
\* recorded so far, one flag per guess examined
RECURSIVE SpecAcceptLoop(_, _, _, _)
SpecAcceptLoop(full_sequence, guesses, offset, details) ==
    LET i == Len(details) IN
    IF i >= Len(guesses)
    THEN details
    ELSE LET target_pred == TargetArgmax(full_sequence, offset + i)
             is_accepted == (target_pred = guesses[i + 1])
         IN  IF is_accepted
             THEN SpecAcceptLoop(full_sequence, guesses, offset,
                                 Append(details, TRUE))
             ELSE Append(details, FALSE)

\* the number of leading accepted entries of the details
AcceptedOf(details) == Cardinality({ j \in 1 .. Len(details) : details[j] })

\* what a step of speculative_decode computes once the draft loop is over
SpecStep ==
    LET full_sequence == demo.context \o demo.generated \o demo.guesses
        offset == Len(demo.context) + Len(demo.generated)
        details == SpecAcceptLoop(full_sequence, demo.guesses, offset, << >>)
        accepted == AcceptedOf(details)
        extended == demo.generated \o SubSeq(demo.guesses, 1, accepted)
        position == Len(demo.context) + Len(extended)
    IN  [ full_sequence |-> full_sequence, details |-> details,
          accepted |-> accepted, extended |-> extended,
          position |-> position,
          more |-> Len(extended) < demo.max_new_tokens ]

\* the statistics of a step
SpecStats(st) ==
    [ demo EXCEPT
        !.target_calls = @ + 1,
        !.total_guesses = @ + Len(demo.guesses),
        !.total_accepted = @ + st.accepted,
        !.acceptance_steps =
            Append(@, [ guesses |-> Len(demo.guesses),
                        accepted |-> st.accepted,
                        details |-> st.details ]) ]

\* the verification phase and the extra target token of a step, when the
\* index of the extra token is a row of the logits (or no token is needed)
SpecVerify ==
    /\ demo.pc = "verify"
    /\ LET st == SpecStep IN
       /\ st.more => st.position < Len(st.full_sequence)
       /\ demo' = [ SpecStats(st) EXCEPT
                      !.generated =
                          IF st.more
                          THEN Append(st.extended,
                                      TargetArgmax(st.full_sequence, st.position))
                          ELSE st.extended,
                      !.pc = "while" ]
    /\ UNCHANGED << EngineVars, targetModel >>

\* the same step when logits[position] is beyond the last row: IndexError
SpecVerifyIndexError ==
    /\ demo.pc = "verify"
    /\ LET st == SpecStep IN
       /\ st.more /\ st.position >= Len(st.full_sequence)
       /\ demo' = [ SpecStats(st) EXCEPT
                      !.generated = st.extended,
                      !.pc = "IndexError" ]
    /\ UNCHANGED << EngineVars, targetModel >>

DemoNext ==
    \/ GreedyDecodeStep
    \/ GreedyDecodeReturn
    \/ SpecLoopHead
    \/ \E g \in Vocab : SpecDraftCall(g)
    \/ SpecVerify
    \/ SpecVerifyIndexError

DemoSpec == DemoInit /\ [][DemoNext]_vars

\* =================================================================== claims
\* the call is inside _generate_tokens, or has just left its loop
InGenerateTokens == pc \in {"loop", "draft", "verify", "exit"}

\* C1: when no model call failed, the list _generate_tokens returns is the
\* tokenized prompt followed by exactly the max_new_tokens tokens that
\* target-only greedy decoding produces from it.
C1_Equivalence ==
    (pc = "exit" /\ ~failed) =>
        generated = Greedy(TokenizePrompt(prompt), max_new_tokens)

\* a run of several rounds that both accepted and rejected draft tokens
C1_Witness ==
    /\ pc = "exit" /\ ~failed
    /\ max_new_tokens = MaxNewArg
    /\ hist.draft_accepted > 0
    /\ hist.draft_accepted < tokens_generated
    /\ hist.multi

\* C2: the tokens speculative_decode generates are those greedy_decode
\* generates from the same context, and at every moment what it has appended
\* is what target-only greedy decoding produces after the context.
C2_DemoEquivalence ==
    /\ demo.pc \in {"while", "draft", "verify", "done"} =>
          IsPrefix(demo.context \o demo.generated,
                   Greedy(demo.context, demo.max_new_tokens))
    /\ demo.pc = "done" => demo.generated = demo.naive

\* C3: every round that completes appends at least one token: the counter
\* tokens_generated and the generated list both grow strictly.
C3_Progress ==
    [][ metrics'.total_speculation_rounds = metrics.total_speculation_rounds + 1
          => /\ tokens_generated' > tokens_generated
             /\ Len(generated') > Len(generated) ]_vars

\* a completed round of two proposals in which no draft token matched
C3_Witness ==
    /\ pc = "loop"
    /\ metrics.total_speculation_rounds >= 2
    /\ last.m = 2 /\ last.matched = 0 /\ last.added = 1

\* the steps the loop of _generate_tokens can still take: each round is the
\* loop head, at most speculation_length draft calls and one target call, and
\* there are at most as many rounds as tokens remain to be generated
RoundSteps == CfgMaxSpec + 3
LoopRank ==
    LET remaining == Max(max_new_tokens - tokens_generated, 0) IN
    CASE pc = "loop" -> remaining * RoundSteps + RoundSteps - 1
      [] pc = "draft" ->
            remaining * RoundSteps + (speculation_length - Len(draft_tokens)) + 1
      [] pc = "verify" -> remaining * RoundSteps + 1
      [] OTHER -> 0

\* C4: the generation loop always ends, whatever the models do, failures
\* included: inside the loop a step is always possible and every step brings
\* the loop strictly closer to its exit (a failed call is not retried), and at
\* most max_new_tokens rounds are started.
C4_Termination ==
    /\ [](hist.rounds <= max_new_tokens)
    /\ [](pc \in {"loop", "draft", "verify"} => ENABLED Next)
    /\ [][ (pc \in {"loop", "draft", "verify"}) => (LoopRank' < LoopRank) ]_vars

\* a call whose loop was left by a failed model call after some rounds
C4_Witness ==
    /\ pc = "exit" /\ failed
    /\ metrics.total_speculation_rounds >= 2
    /\ hist.rounds = metrics.total_speculation_rounds + 1

\* C5 (as stated): the target model is called at most max_new_tokens times,
\* and exactly max_new_tokens times only when no draft token was accepted in
\* any round.
C5_CallCountOriginal ==
    InGenerateTokens =>
        /\ target_calls <= max_new_tokens
        /\ (target_calls = max_new_tokens => hist.draft_accepted = 0)

\* C5 (amended): the target model is called at most max_new_tokens times, and
\* exactly max_new_tokens times only when every completed round appended
\* exactly one token.
C5_CallCount ==
    InGenerateTokens =>
        /\ target_calls <= max_new_tokens
        /\ (target_calls = max_new_tokens => ~hist.multi)

\* max_new_tokens rounds, every one of which accepted its single proposal
C5_Witness ==
    /\ pc = "exit" /\ ~failed
    /\ max_new_tokens = MaxNewArg
    /\ target_calls = max_new_tokens
    /\ hist.draft_accepted = max_new_tokens

\* C6: once MaxConsecutiveRejections consecutive rounds had no draft token
\* equal to the target's prediction, the draft model is not called again in
\* that generate call.
C6_Fallback ==
    [][ (zero_run >= MaxConsecutiveRejections /\ calls' = calls)
          => draft_calls' = draft_calls ]_vars

\* C7: when a model call failed and fallback_to_standard is set, the call
\* returns the prompt followed by max_new_tokens new tokens.
C7_ErrorFallback ==
    (pc = "returned" /\ failed /\ cfg.fallback_to_standard) =>
        /\ result.kind = "text"
        /\ Len(result.tokens) = original_length + max_new_tokens

\* C8: when a model call failed and fallback_to_standard is not set, generate
\* has raised RuntimeError, has returned no text, and calls no model again in
\* that call.
C8_ErrorNoFallback ==
    /\ []( (failed /\ ~cfg.fallback_to_standard) =>
             /\ pc = "raised"
             /\ result.kind = "RuntimeError"
             /\ result.tokens = << >> )
    /\ [][ (failed /\ ~cfg.fallback_to_standard /\ calls' = calls) =>
             /\ draft_calls' = draft_calls
             /\ target_calls' = target_calls ]_vars

\* the target model failed after two rounds, with fallback_to_standard unset
C8_Witness ==
    /\ failed /\ ~cfg.fallback_to_standard
    /\ pc = "raised"
    /\ target_calls = 3
    /\ metrics.total_speculation_rounds = 2

\* C9: as long as no model call failed, the target model was called exactly
\* once for every completed round.
C9_OneTargetCallPerRound ==
    (InGenerateTokens /\ ~failed) =>
        target_calls = metrics.total_speculation_rounds

\* three rounds done, the last one with two proposals
C9_Witness ==
    /\ pc = "loop" /\ ~failed
    /\ metrics.total_speculation_rounds = 3
    /\ target_calls = 3
    /\ last.m = 2

\* C10: a round in which all m draft tokens were accepted, and that leaves the
\* budget unreached, appended m + 1 tokens.
C10_FullAcceptExtension ==
    ( /\ InGenerateTokens
      /\ last.m > 0
      /\ last.matched = last.m
      /\ last.before + last.m < max_new_tokens )
    => last.added = last.m + 1

\* ---------------------------------------------------------------------------
\* the round that completes in a step: _verification_phase returned and the
\* metrics counted the round
RoundCompletes ==
    /\ pc = "verify"
    /\ metrics'.total_speculation_rounds = metrics.total_speculation_rounds + 1

\* the 0-based indexes of the draft tokens that differ from the target's own
\* greedy prediction after the context and the draft tokens before them
MismatchIndexes(context, drafts) ==
    { i \in 0 .. (Len(drafts) - 1) :
        drafts[i + 1] # TargetPredict(context \o SubSeq(drafts, 1, i)) }

FirstMismatch(context, drafts) ==
    CHOOSE i \in MismatchIndexes(context, drafts) :
        \A j \in MismatchIndexes(context, drafts) : i <= j

\* C11: when the first draft token that differs from the target's prediction is
\* draft_tokens[i], the round grows the list by exactly i + 1 tokens: the draft
\* tokens before index i, then the target's own prediction for position i, and
\* no draft token from index i on.
C11_MismatchRule ==
    [][ ( RoundCompletes /\ MismatchIndexes(generated, draft_tokens) # {} )
        => LET i == FirstMismatch(generated, draft_tokens)
               kept == SubSeq(draft_tokens, 1, i)
           IN  /\ generated' = (generated \o kept)
                                 \o << TargetPredict(generated \o kept) >>
               /\ Len(generated') = Len(generated) + i + 1
               /\ generated'[Len(generated')] # draft_tokens[i + 1] ]_vars

C11_Witness ==
    /\ pc = "loop"
    /\ last.m = 2
    /\ last.matched = 1
    /\ last.added = 2
    /\ MismatchIndexes(SubSeq(generated, 1, Len(generated) - 2), draft_tokens) = {1}

\* ---------------------------------------------------------------------------
\* The speculation loop over many rounds: one generate call with the default
\* max_new_tokens argument, every draft model, one target model, and
\* configurations whose budget leaves room for the adaptive rule to act.
AdaptConfigs ==
    { c \in [ speculation_length : 1 .. MaxAdaptK,
              max_speculation_length : {MaxAdaptK, MaxAdaptK + 1},
              max_new_tokens : {MaxAdaptNew},
              max_sequence_length : {AdaptMaxSeq},
              fallback_to_standard : {TRUE} ] :
        ValidConfig(c) }

AdaptInit ==
    /\ cfg \in AdaptConfigs
    /\ targetModel = [ a |-> 0, b |-> 0 ]
    /\ EngineIdle
    /\ demo = DemoIdle

\* the draft model's answers in these runs: the token this target model
\* predicts after every sequence, and one it never predicts
AdaptDraftTokens == {TargetPredict(<< 1 >>), (TargetPredict(<< 1 >>) + 1) % VocabSize}

AdaptNext ==
    \/ Generate(<< 1 >>, NoneArg)
    \/ LoopHead
    \/ \E t \in AdaptDraftTokens : DraftCall(t)
    \/ TargetCall

AdaptSpec == AdaptInit /\ [][AdaptNext]_vars

\* C12: whatever rounds and accepted tokens the metrics have counted, the
\* adaptive speculation length is at least 1 and at most
\* config.max_speculation_length, and so is the length a round drafts with.
C12_AdaptiveBounds ==
    InGenerateTokens
    => /\ 1 <= GetAdaptiveSpeculationLength(cfg, metrics)
       /\ GetAdaptiveSpeculationLength(cfg, metrics) <= cfg.max_speculation_length
       /\ (pc = "draft" => /\ 1 <= speculation_length
                            /\ speculation_length <= cfg.max_speculation_length)

\* a round drafts at the cap: the rate is high and base + 1 would exceed it
C12_Witness ==
    /\ pc = "draft"
    /\ metrics.total_speculation_rounds > AdaptiveMinRounds
    /\ RateAbove(metrics, HighRateTenths)
    /\ cfg.speculation_length = cfg.max_speculation_length
    /\ speculation_length = cfg.max_speculation_length

\* the acceptance-rate rule as the claims state it, on the rate
\* accepted / (AssumedK * rounds): above 0.8 is 5 * accepted > 4 * AssumedK * rounds,
\* below 0.3 is 10 * accepted < 3 * AssumedK * rounds
AdaptiveRule(c, m) ==
    LET a == m.total_accepted_tokens
        r == m.total_speculation_rounds
    IN  CASE 5 * a > 4 * AssumedK * r -> Min(c.speculation_length + 1, c.max_speculation_length)
          [] 10 * a < 3 * AssumedK * r -> Max(1, c.speculation_length - 1)
          [] OTHER -> c.speculation_length

\* C13 as stated: the base length while fewer than 5 rounds have completed, the
\* rate rule from 5 completed rounds on.
C13_WarmUpOriginal ==
    InGenerateTokens
    => /\ metrics.total_speculation_rounds < 5
          => GetAdaptiveSpeculationLength(cfg, metrics) = cfg.speculation_length
       /\ metrics.total_speculation_rounds >= 5
          => GetAdaptiveSpeculationLength(cfg, metrics) = AdaptiveRule(cfg, metrics)

\* C13: the adaptive length is the base length while at most 5 rounds have
\* completed, and follows the rate rule once more than 5 rounds have completed
\* (from the choice of k for the 7th round on).
C13_WarmUp ==
    InGenerateTokens
    => /\ metrics.total_speculation_rounds <= 5
          => GetAdaptiveSpeculationLength(cfg, metrics) = cfg.speculation_length
       /\ metrics.total_speculation_rounds > 5
          => GetAdaptiveSpeculationLength(cfg, metrics) = AdaptiveRule(cfg, metrics)

\* five rounds have completed at a rate that the rule would act on, and the
\* 6th round drafts with the base length
C13_Witness ==
    /\ pc = "draft"
    /\ metrics.total_speculation_rounds = 5
    /\ AdaptiveRule(cfg, metrics) # cfg.speculation_length
    /\ speculation_length = cfg.speculation_length

\* C14: once the rule is active, the adaptive length is min(base + 1, max)
\* when the acceptance rate is above 0.8, max(1, base - 1) when it is below
\* 0.3, and the base length otherwise.
C14_AdaptiveRule ==
    ( InGenerateTokens /\ metrics.total_speculation_rounds > AdaptiveMinRounds )
    => LET base == cfg.speculation_length
           a == metrics.total_accepted_tokens
           r == metrics.total_speculation_rounds
           result_k == GetAdaptiveSpeculationLength(cfg, metrics)
       IN  /\ 5 * a > 4 * AssumedK * r
              => result_k = Min(base + 1, cfg.max_speculation_length)
           /\ 10 * a < 3 * AssumedK * r => result_k = Max(1, base - 1)
           /\ ( 5 * a <= 4 * AssumedK * r /\ 10 * a >= 3 * AssumedK * r )
              => result_k = base

\* a round drafts one token more than the base length after a high rate
C14_Witness ==
    /\ pc = "draft"
    /\ metrics.total_speculation_rounds > AdaptiveMinRounds
    /\ 5 * metrics.total_accepted_tokens > 4 * AssumedK * metrics.total_speculation_rounds
    /\ speculation_length = cfg.speculation_length + 1

\* C15: the acceptance rate of the metrics is the accepted-token count over the
\* number of draft tokens proposed in all completed rounds, and 0 when no round
\* has run.
C15_AcceptanceRate ==
    InGenerateTokens
    => IF metrics.total_speculation_rounds = 0
       THEN AcceptanceRate(metrics).num = 0
       ELSE AcceptanceRate(metrics).num * hist.proposed
              = metrics.total_accepted_tokens * AcceptanceRate(metrics).den

\* C16: tokens_generated never exceeds max_new_tokens, a round never appends
\* more tokens than the length it was clamped to, and a loop that exits
\* without a model error has generated exactly max_new_tokens tokens.
C16_TokenBudget ==
    InGenerateTokens
    => /\ tokens_generated <= max_new_tokens
       /\ last.before + last.added <= max_new_tokens
       /\ (pc = "verify" => Len(draft_tokens) <= max_new_tokens - tokens_generated)
       /\ (pc = "exit" /\ ~failed => tokens_generated = max_new_tokens)

\* the loop has exited on the budget after a round clamped below the base length
C16_Witness ==
    /\ pc = "exit"
    /\ ~failed
    /\ metrics.total_speculation_rounds >= 2
    /\ last.m < cfg.speculation_length
    /\ tokens_generated = max_new_tokens

\* C17: during a generate call the token list is never longer than
\* config.max_sequence_length.
C17_MaxContextLength ==
    pc # "idle" => Len(generated) <= cfg.max_sequence_length

\* C18: within one call the token list only grows by appends: every step
\* leaves the previous list as a prefix of the new one, and the tokenized
\* prompt stays at its head.
C18_AppendOnly ==
    [][ InGenerateTokens
        => /\ IsPrefix(generated, generated')
           /\ Len(generated') >= Len(generated)
           /\ IsPrefix(TokenizePrompt(prompt), generated') ]_vars

\* a second round has appended two tokens after the tokens of the first
C18_Witness ==
    /\ pc = "loop"
    /\ metrics.total_speculation_rounds = 2
    /\ last.added = 2
    /\ Len(generated) = original_length + tokens_generated
    /\ last.before > 0

\* the call has left the speculation loop: a model call failed, or the loop
\* was left, or generate has gone on to its fallback or its end
LeftSpeculation ==
    failed \/ pc \in {"exit", "fallback", "returned", "raised"}

\* C19: once a call has left speculation, no step of that call starts or
\* completes a round, calls the draft model, or goes back into the loop.
C19_NoReentry ==
    [][ ( LeftSpeculation /\ calls' = calls )
        => /\ draft_calls' = draft_calls
           /\ hist'.rounds = hist.rounds
           /\ metrics'.total_speculation_rounds = metrics.total_speculation_rounds
           /\ pc' \notin {"loop", "draft", "verify"} ]_vars

\* a call that ran rounds, then broke out on a model error, has gone through
\* its fallback to the end
C19_Witness ==
    /\ pc = "returned"
    /\ failed
    /\ cfg.fallback_to_standard
    /\ metrics.total_speculation_rounds >= 1
    /\ draft_calls >= 2

\* the demo script's own run: context [10, 20], the draft model a copy of the
\* target, k = 4 and max_new_tokens = 20
IsScenario == demo.pc # "idle" /\ demo.draft = "target" /\ demo.k = ScenarioK
              /\ demo.max_new_tokens = ScenarioNew
              /\ demo.context = ScenarioInput.context

\* C20: in the run with identical models, k = 4 and max_new_tokens = 20,
\* greedy_decode has made 20 model calls when it returns, and
\* speculative_decode returns after exactly ceil(20 / 4) = 5 target calls.
C20_IdenticalModels ==
    IsScenario
    => /\ demo.pc # "IndexError"
       /\ (demo.pc # "greedy" => demo.calls = ScenarioNew)
       /\ (demo.pc = "done"
             => demo.target_calls = (ScenarioNew + ScenarioK - 1) \div ScenarioK)

\* C21: while in every round the first draft token has differed from the
\* target's prediction, every round has accepted no draft token and appended
\* exactly one token, so rounds, target calls and generated tokens are equal,
\* and the loop ends after exactly max_new_tokens rounds and target calls.
C21_AlwaysDisagrees ==
    ( InGenerateTokens /\ ~failed /\ zero_run = metrics.total_speculation_rounds )
    => /\ hist.draft_accepted = 0
       /\ ~hist.multi
       /\ tokens_generated = metrics.total_speculation_rounds
       /\ target_calls = metrics.total_speculation_rounds
       /\ Len(generated) = original_length + metrics.total_speculation_rounds
       /\ (pc = "exit" => /\ metrics.total_speculation_rounds = max_new_tokens
                           /\ target_calls = max_new_tokens)

\* a call with two-token proposals has ended after max_new_tokens rounds in
\* which the draft never agreed
C21_Witness ==
    /\ pc = "exit"
    /\ ~failed
    /\ cfg.speculation_length = 2
    /\ max_new_tokens >= 3
    /\ zero_run = max_new_tokens
    /\ metrics.total_speculation_rounds = max_new_tokens
    /\ draft_calls > max_new_tokens

\* the rounds this call has completed, from the rounds it has started
CompletedRounds ==
    IF pc \in {"draft", "verify"} \/ (failed /\ hist.rounds > 0)
    THEN hist.rounds - 1 ELSE hist.rounds

\* C22: a generate call that gets as far as its generation work starts it
\* with all metrics counters at zero, whatever the call before left in them,
\* and from then on the counters count this call's rounds and tokens only.
C22_MetricsReset ==
    /\ [][ ( calls' = calls + 1 /\ prompt' # << >> ) => metrics' = NewMetrics ]_vars
    /\ []( ( pc # "idle" /\ prompt # << >> )
            => /\ metrics.total_speculation_rounds = CompletedRounds
               /\ metrics.total_accepted_tokens = tokens_generated
               /\ metrics.total_tokens_generated \in {0, tokens_generated} )

\* the second call on a decoder has returned with the counters of its own
\* single round
C22_Witness ==
    /\ calls = 2
    /\ pc = "returned"
    /\ result.kind = "text"
    /\ max_new_tokens = 1
    /\ metrics.total_speculation_rounds = 1
    /\ metrics.total_tokens_generated = 1

\* C23: a generate call made with return_metrics=True that returns normally
\* returns the text together with the metrics, also when it went through
\* _fallback_generate.
C23_FallbackObservable ==
    ( pc = "returned" /\ result.kind = "text" /\ result.asked )
    => result.with_metrics

\* C24: no step of _draft_phase, whether the draft model answers or raises,
\* changes the caller's token list, and the proposals it hands back are a list
\* of their own holding this round's proposals only.
C24_DraftPhaseFrame ==
    /\ [][ (pc = "draft")
            => /\ generated' = generated
               /\ Len(draft_tokens') <= Len(draft_tokens) + 1 ]_vars
    /\ []( (pc \in {"draft", "verify"})
            => /\ Len(draft_tokens) <= speculation_length
               /\ Len(generated) = original_length + tokens_generated )

\* the draft model raised after one proposal of a two-token round, in a call
\* that had generated tokens before: the list is as the last round left it
C24_Witness ==
    /\ failed
    /\ pc = "exit"
    /\ speculation_length = 2
    /\ Len(draft_tokens) = 1
    /\ tokens_generated >= 1
    /\ Len(generated) + 1 < cfg.max_sequence_length
    /\ Len(generated) = original_length + tokens_generated

\* C25: the proposals _draft_phase returns never take the context past
\* config.max_sequence_length, whatever the length of the context.
C25_DraftTruncation ==
    pc = "verify" => Len(generated) + Len(draft_tokens) <= cfg.max_sequence_length

\* ---------------------------------------------------------------------------
\* The decoder from the construction of its configuration on: the values a
\* caller or a configuration file may give for speculation_length, in and out
\* of range.
RawConfigs ==
    [ speculation_length : (0 .. MaxBaseK) \cup {CfgMaxSpec + 1},
      max_speculation_length : {CfgMaxSpec},
      max_new_tokens : {CfgMaxNew},
      max_sequence_length : {CfgMaxSeq},
      fallback_to_standard : BOOLEAN ]

\* the dataclass fields are set and __post_init__ has not run yet
ConfigInit ==
    /\ cfg \in RawConfigs
    /\ targetModel \in TargetModels
    /\ pc = "new"
    /\ calls = 0
    /\ prompt = << >>
    /\ max_new_tokens = 0
    /\ original_length = 0
    /\ generated = << >>
    /\ tokens_generated = 0
    /\ consecutive_rejections = 0
    /\ speculation_length = 0
    /\ draft_tokens = << >>
    /\ metrics = NewMetrics
    /\ result = NoResult
    /\ draft_calls = 0
    /\ target_calls = 0
    /\ failed = FALSE
    /\ last = NoRound
    /\ zero_run = 0
    /\ hist = NoHist
    /\ demo = DemoIdle

\* __post_init__ (reached by SpeculativeDecodingConfig(...) and by from_file's
\* cls(**config_dict)): _validate_config raises ValueError, or the
\* configuration exists and a decoder is built on it
PostInit ==
    /\ pc = "new"
    /\ IF ValidConfig(cfg)
       THEN pc' = "idle" /\ UNCHANGED result
       ELSE pc' = "invalid" /\ result' = Raised("ValueError")
    /\ UNCHANGED << cfg, targetModel, calls, prompt, max_new_tokens,
                    original_length, generated, tokens_generated,
                    consecutive_rejections, speculation_length, draft_tokens,
                    metrics, draft_calls, target_calls, failed, last, zero_run,
                    hist, demo >>

ConfigNext ==
    \/ PostInit
    \/ Next

ConfigSpec == ConfigInit /\ [][ConfigNext]_vars

\* C26: a configuration whose speculation_length is outside
\* [1, max_speculation_length] ends its construction in ValueError, and no
\* generate call and no round ever runs on it.
C26_ConfigFailsFast ==
    ~( 1 <= cfg.speculation_length
       /\ cfg.speculation_length <= cfg.max_speculation_length )
    => /\ pc \in {"new", "invalid"}
       /\ (pc = "invalid" => result = Raised("ValueError"))
       /\ calls = 0
       /\ hist.rounds = 0
       /\ draft_calls = 0

\* the construction with speculation_length = 0 has raised
C26_Witness ==
    /\ pc = "invalid"
    /\ cfg.speculation_length = 0
    /\ result = Raised("ValueError")

\* C27: greedy_decode leaves the caller's context as it was, and when it has
\* returned it has called the model max_new_tokens times and returned
\* max_new_tokens tokens, each the model's prediction after the context and
\* the tokens returned before it.
C27_GreedyDecode ==
    /\ [][ (demo.pc = "greedy") => demo'.context = demo.context ]_vars
    /\ []( (demo.pc \notin {"idle", "greedy"})
            => /\ demo.calls = demo.max_new_tokens
               /\ Len(demo.naive) = demo.max_new_tokens
               /\ \A j \in 1 .. Len(demo.naive) :
                     demo.naive[j]
                       = TargetPredict(demo.context \o SubSeq(demo.naive, 1, j - 1)) )

\* greedy_decode has returned three tokens after a context of two
C27_Witness ==
    /\ demo.pc = "while"
    /\ Len(demo.context) = 2
    /\ demo.max_new_tokens = 3
    /\ Len(demo.naive) = 3
    /\ demo.calls = 3

\* C28: speculative_decode never reads a row of the target's output that is
\* not there, and when it has returned it has generated exactly
\* max_new_tokens tokens.
C28_DemoCompletes ==
    /\ demo.pc # "IndexError"
    /\ (demo.pc = "done" => Len(demo.generated) = demo.max_new_tokens)

\* C29: every round drafts a proposal of at least one token and at most
\* min(current_k, max_new_tokens - tokens_generated) tokens; while budget
\* remains the loop head always goes on to the draft phase, and the draft
\* phase is left for the end of the loop only by an exception.
C29_ProposalSize ==
    /\ []( (pc \in {"draft", "verify"})
            => LET current_k == GetAdaptiveSpeculationLength(cfg, metrics)
                   remaining == max_new_tokens - tokens_generated
               IN  /\ speculation_length >= 1
                   /\ speculation_length = Min(current_k, remaining)
                   /\ Len(draft_tokens) <= speculation_length
                   /\ (pc = "verify" => Len(draft_tokens) >= 1) )
    /\ [][ (pc = "loop" /\ tokens_generated < max_new_tokens)
            => pc' = "draft" ]_vars
    /\ [][ (pc = "draft" /\ pc' \notin {"draft", "verify"}) => failed' ]_vars

\* a proposal of one token in a round whose base length 2 was clamped to the
\* one token left of the budget
C29_Witness ==
    /\ pc = "verify"
    /\ cfg.speculation_length = 2
    /\ max_new_tokens - tokens_generated = 1
    /\ speculation_length = 1
    /\ Len(draft_tokens) = 1
    /\ metrics.total_speculation_rounds >= 1

\* C30: the count a round's _verification_phase returns is between 0 and the
\* number of draft tokens, and is the number of tokens the call appended:
\* the matching draft tokens, plus one for the target's token after a mismatch.
C30_AcceptedCount ==
    [][ RoundCompletes
        => LET accepted_count == tokens_generated' - tokens_generated
               substituted == IF last'.matched < Len(draft_tokens) THEN 1 ELSE 0
           IN  /\ 0 <= accepted_count
               /\ accepted_count <= Len(draft_tokens)
               /\ Len(generated') = Len(generated) + accepted_count
               /\ accepted_count = last'.matched + substituted ]_vars

\* a round has accepted both tokens of its proposal
C30_Witness ==
    /\ pc = "loop"
    /\ last.m = 2
    /\ last.matched = 2
    /\ last.added = 2
    /\ tokens_generated = last.before + 2

\* C31: a generate call given max_new_tokens = n, n = 0 included, starts its
\* loop with a budget of n tokens, and only a call given None starts it with
\* config.max_new_tokens (the loop never generates more than its budget).
C31_HonoursArgument ==
    [][ \A p \in Prompts \ {<< >>}, n \in MaxNewArgs :
          Generate(p, n)
          => max_new_tokens' = IF n = NoneArg THEN cfg.max_new_tokens ELSE n ]_vars

C33_BreakerUnreachable ==
    /\ consecutive_rejections = 0
    /\ ( last.m > 0 => last.added >= 1 )
    /\ ( pc = "exit" /\ ~failed ) => tokens_generated >= max_new_tokens
    /\ ( pc = "loop" /\ zero_run >= MaxConsecutiveRejections )
         => tokens_generated >= MaxConsecutiveRejections

\* the draft model was wrong about the first token of its proposal in
\* MaxConsecutiveRejections rounds in a row, and the loop goes on
C33_Witness ==
    /\ pc = "loop"
    /\ zero_run >= MaxConsecutiveRejections
    /\ metrics.total_speculation_rounds >= MaxConsecutiveRejections
    /\ tokens_generated < max_new_tokens
    /\ consecutive_rejections = 0
    /\ ~failed

\* C34: a round of _generate_tokens in which the draft or the target model
\* call raises changes nothing: the step that raises leaves the generated
\* list, tokens_generated and the metrics counters alone, and once a round has
\* failed these have the values the round started with, that is those the
\* rounds completed before it left.
C34_FailedRoundFrame ==
    /\ [][ ( ~failed /\ failed' )
            => /\ pc \in {"draft", "verify"}
               /\ generated' = generated
               /\ tokens_generated' = tokens_generated
               /\ metrics'.total_speculation_rounds = metrics.total_speculation_rounds
               /\ metrics'.total_accepted_tokens = metrics.total_accepted_tokens ]_vars
    /\ []( failed
            => /\ tokens_generated = last.before + last.added
               /\ Len(generated) = original_length + last.before + last.added
               /\ metrics.total_speculation_rounds = hist.rounds - 1
               /\ metrics.total_accepted_tokens = last.before + last.added )

\* the target model raised in the third round or later, after the rounds
\* before it had generated tokens, and the loop was left with their counts
C34_Witness ==
    /\ failed
    /\ pc = "exit"
    /\ hist.rounds >= 3
    /\ target_calls = hist.rounds
    /\ draft_tokens # << >>
    /\ metrics.total_speculation_rounds = hist.rounds - 1
    /\ tokens_generated >= 3
    /\ Len(generated) = original_length + tokens_generated

\* C35: the adaptation does not accumulate: in every round of a generate call
\* the length _get_adaptive_speculation_length chooses is the configured base
\* length, one less or one more, however many rounds the acceptance rate has
\* been high or low; a round with that much budget left drafts with it.
C35_NoDrift ==
    InGenerateTokens
    => LET base == cfg.speculation_length
           current_k == GetAdaptiveSpeculationLength(cfg, metrics)
       IN  /\ current_k \in {base - 1, base, base + 1}
           /\ ( pc \in {"draft", "verify"}
                 /\ max_new_tokens - tokens_generated > base )
               => speculation_length \in {base - 1, base, base + 1}

\* the rate has been low for many rounds past the warm-up, and the round
\* drafts with one token less than the base length 3
C35_Witness ==
    /\ pc = "draft"
    /\ cfg.speculation_length = 3
    /\ metrics.total_speculation_rounds >= AdaptiveMinRounds + 5
    /\ zero_run >= AdaptiveMinRounds + 5
    /\ RateBelow(metrics, LowRateTenths)
    /\ max_new_tokens - tokens_generated > 3
    /\ speculation_length = 2

\* the sum over the recorded steps of the proposal lengths
RECURSIVE StepsGuesses(_)
StepsGuesses(steps) ==
    IF steps = << >> THEN 0
    ELSE steps[1].guesses + StepsGuesses(Tail(steps))

\* the sum over the recorded steps of the accepted counts
RECURSIVE StepsAccepted(_)
StepsAccepted(steps) ==
    IF steps = << >> THEN 0
    ELSE steps[1].accepted + StepsAccepted(Tail(steps))

\* C36: the statistics of speculative_decode are consistent: target_calls is
\* the number of recorded steps, total_guesses and total_accepted are the sums
\* over the steps of the proposal length and of the accepted count, no step
\* accepts more than it proposed (so total_accepted <= total_guesses), and the
\* details of a step are accepted entries marked accepted, followed by at
\* most one entry marked rejected.
C36_DemoStatistics ==
    LET steps == demo.acceptance_steps IN
    /\ demo.target_calls = Len(steps)
    /\ demo.total_guesses = StepsGuesses(steps)
    /\ demo.total_accepted = StepsAccepted(steps)
    /\ demo.total_accepted <= demo.total_guesses
    /\ \A j \in 1 .. Len(steps) :
          LET d == steps[j].details
              a == steps[j].accepted
          IN  /\ a <= steps[j].guesses
              /\ Len(d) \in {a, a + 1}
              /\ Len(d) <= steps[j].guesses
              /\ \A i \in 1 .. a : d[i]
              /\ Len(d) = a + 1 => ~d[a + 1]

\* speculative_decode returned after several steps, one that accepted a
\* guess and then rejected the next, and one that accepted all it proposed
C36_Witness ==
    LET steps == demo.acceptance_steps IN
    /\ demo.pc = "done"
    /\ Len(steps) >= 2
    /\ demo.target_calls = Len(steps)
    /\ demo.total_accepted < demo.total_guesses
    /\ \E j \in 1 .. Len(steps) :
          /\ steps[j].accepted >= 1
          /\ Len(steps[j].details) = steps[j].accepted + 1
          /\ steps[j].guesses >= 3
    /\ \E j \in 1 .. Len(steps) :
          /\ steps[j].accepted = steps[j].guesses
          /\ Len(steps[j].details) = steps[j].accepted

====
